---- MODULE Spec2Model ----
(***************************************************************************)
(* A model of BigNumber (src/src/lib/bigint.ts): a signed decimal with a   *)
(* textual integer part (_value) and a textual 18-character fractional     *)
(* field (_decimal).  JavaScript strings are sequences of one-character    *)
(* strings; native bigints are records [neg, mag] whose mag is the         *)
(* big-endian sequence of decimal digits without leading zeros (zero is    *)
(* the empty sequence), so that 10^18 and 10^36 keep their exact values.   *)
(***************************************************************************)
EXTENDS Integers, Sequences, FiniteSets

MAX_BYTES == 36
PRECISION_BYTES == 18

(***************************************************************************)
(* JavaScript strings.                                                     *)
(***************************************************************************)
DigitChars == <<"0", "1", "2", "3", "4", "5", "6", "7", "8", "9">>

IsDigit(c) == \E i \in 1..10 : DigitChars[i] = c

DigitVal(c) == (CHOOSE i \in 1..10 : DigitChars[i] = c) - 1

DigitChar(n) == DigitChars[n + 1]

\* "c".repeat(n); a count that is not positive gives the empty string.
Repeat(c, n) == IF n <= 0 THEN << >> ELSE [i \in 1..n |-> c]

\* s.substring(from) and s.slice(0, to), with 0-based JavaScript offsets.
StrFrom(s, from) == SubSeq(s, from + 1, Len(s))

StrTo(s, to) == SubSeq(s, 1, IF to < Len(s) THEN to ELSE Len(s))

Includes(s, c) == \E i \in 1..Len(s) : s[i] = c

CountOf(s, c) == Cardinality({i \in 1..Len(s) : s[i] = c})

\* 0-based offset of the first c in s (s includes c).
IndexOf(s, c) == (CHOOSE i \in 1..Len(s) : s[i] = c /\ \A j \in 1..(i - 1) : s[j] # c) - 1

\* s.replace(c, r): only the first occurrence is replaced.
ReplaceFirst(s, c, r) ==
    IF Includes(s, c)
    THEN StrTo(s, IndexOf(s, c)) \o r \o StrFrom(s, IndexOf(s, c) + 1)
    ELSE s

\* s.split(c)[0] and s.split(c)[1] (undefined is modelled by the caller's default).
SplitFirst(s, c) == IF Includes(s, c) THEN StrTo(s, IndexOf(s, c)) ELSE s

HasSecond(s, c) == Includes(s, c)

SplitSecond(s, c) == SplitFirst(StrFrom(s, IndexOf(s, c) + 1), c)

\* s.padEnd(n, "0")
PadEnd(s, n) == s \o Repeat("0", n - Len(s))

AllDigits(s) == \A i \in 1..Len(s) : IsDigit(s[i])

(***************************************************************************)
(* Native bigint arithmetic on digit sequences.                            *)
(***************************************************************************)
RECURSIVE Strip(_)
Strip(m) == IF m # << >> /\ m[1] = 0 THEN Strip(Tail(m)) ELSE m

PadL(m, n) == [i \in 1..n |-> IF i <= n - Len(m) THEN 0 ELSE m[i - (n - Len(m))]]

MaxOf(a, b) == IF a >= b THEN a ELSE b

RECURSIVE AddC(_, _, _, _)
AddC(a, b, i, c) ==
    IF i = 0
    THEN (IF c = 0 THEN << >> ELSE <<c>>)
    ELSE Append(AddC(a, b, i - 1, (a[i] + b[i] + c) \div 10), (a[i] + b[i] + c) % 10)

MagAdd(a, b) ==
    LET n == MaxOf(Len(a), Len(b))
    IN  IF n = 0 THEN << >> ELSE Strip(AddC(PadL(a, n), PadL(b, n), n, 0))

RECURSIVE SubC(_, _, _, _)
SubC(a, b, i, c) ==
    IF i = 0
    THEN << >>
    ELSE Append(SubC(a, b, i - 1, IF a[i] - b[i] - c < 0 THEN 1 ELSE 0),
                (a[i] - b[i] - c + 10) % 10)

\* a - b for a >= b
MagSub(a, b) ==
    LET n == MaxOf(Len(a), Len(b))
    IN  IF n = 0 THEN << >> ELSE Strip(SubC(PadL(a, n), PadL(b, n), n, 0))

RECURSIVE LexLess(_, _, _)
LexLess(a, b, i) ==
    IF i > Len(a) THEN FALSE
    ELSE IF a[i] # b[i] THEN a[i] < b[i]
    ELSE LexLess(a, b, i + 1)

MagLess(a, b) ==
    IF Len(a) # Len(b) THEN Len(a) < Len(b) ELSE LexLess(a, b, 1)

Big(neg, mag) == [neg |-> neg /\ mag # << >>, mag |-> mag]

BigZero == Big(FALSE, << >>)

BigOne == Big(FALSE, <<1>>)

BigNeg(a) == Big(~a.neg, a.mag)

BigAdd(a, b) ==
    IF a.neg = b.neg THEN Big(a.neg, MagAdd(a.mag, b.mag))
    ELSE IF MagLess(a.mag, b.mag) THEN Big(b.neg, MagSub(b.mag, a.mag))
    ELSE Big(a.neg, MagSub(a.mag, b.mag))

BigSub(a, b) == BigAdd(a, BigNeg(b))

BigLess(a, b) ==
    IF a.neg # b.neg THEN a.neg
    ELSE IF a.neg THEN MagLess(b.mag, a.mag)
    ELSE MagLess(a.mag, b.mag)

\* 10^n
Pow10(n) == Big(FALSE, <<1>> \o Repeat(0, n))

\* Text that BigInt(s) and Number(s) accept: digits (possibly none), with an
\* optional leading minus sign before at least one digit.
Parseable(s) ==
    IF s # << >> /\ s[1] = "-"
    THEN Len(s) > 1 /\ AllDigits(Tail(s))
    ELSE AllDigits(s)

\* BigInt(s) for parseable s
BigIntOf(s) ==
    LET neg == s # << >> /\ s[1] = "-"
        ds  == IF neg THEN Tail(s) ELSE s
    IN  Big(neg, Strip([i \in 1..Len(ds) |-> DigitVal(ds[i])]))

\* n.toString()
BigToString(a) ==
    (IF a.neg THEN <<"-">> ELSE << >>) \o
    (IF a.mag = << >> THEN <<"0">> ELSE [i \in 1..Len(a.mag) |-> DigitChar(a.mag[i])])

\* Number.parseInt(s) of a short text: an optional sign and the digits that
\* follow it; NaN (no digit) is reported by ParseIntIsNaN.
RECURSIVE DigitRun(_)
DigitRun(s) == IF s # << >> /\ IsDigit(s[1]) THEN <<s[1]>> \o DigitRun(Tail(s)) ELSE << >>

RECURSIVE NatOf(_)
NatOf(ds) == IF ds = << >> THEN 0 ELSE 10 * NatOf(StrTo(ds, Len(ds) - 1)) + DigitVal(ds[Len(ds)])

Unsigned(s) == IF s # << >> /\ s[1] \in {"-", "+"} THEN Tail(s) ELSE s

ParseIntIsNaN(s) == DigitRun(Unsigned(s)) = << >>

ParseInt(s) ==
    IF s # << >> /\ s[1] = "-" THEN 0 - NatOf(DigitRun(Unsigned(s))) ELSE NatOf(DigitRun(Unsigned(s)))

(***************************************************************************)
(* Module constants (bigint.ts lines 7-16).                                *)
(***************************************************************************)
POSITIVE_INFINITY == Pow10(MAX_BYTES)

NEGATIVE_INFINITY == BigNeg(Pow10(MAX_BYTES))

PRECISION == Pow10(PRECISION_BYTES)

(***************************************************************************)
(* Private utility methods.                                                *)
(***************************************************************************)
\* (Number.parseInt(c) + 1).toString() of one array cell; NaN stays NaN.
IncCell(c) ==
    IF ~IsDigit(c) THEN <<"N", "a", "N">>
    ELSE IF c = "9" THEN <<"1", "0">>
    ELSE <<DigitChar(DigitVal(c) + 1)>>

\* The while loop of roundString: the 0-based index it stops at.
RECURSIVE CascadeStop(_, _)
CascadeStop(number, index) ==
    IF index > 0 /\ number[index + 1] = "9" THEN CascadeStop(number, index - 1) ELSE index

roundString(number, precision) ==
    IF Len(number) <= precision THEN number
    ELSE LET last  == number[precision + 1]
             index == CascadeStop(number, precision - 1)
             rest  == StrFrom(number, precision)
         IN  \* lastDigit < 5 is false for NaN
             IF IsDigit(last) /\ DigitVal(last) < 5 THEN StrTo(number, precision)
             ELSE IF index = 0
             THEN IF number[1] = "9"
                  THEN <<"1", "0">> \o Repeat("0", precision - 1) \o rest
                  ELSE IncCell(number[1]) \o Repeat("0", precision - 1) \o rest
             ELSE IF index < 0
             THEN \* precision = 0: number[-1] is no array element
                  << >>
             ELSE StrTo(number, index) \o IncCell(number[index + 1])
                      \o Repeat("0", precision - 1 - index)

widenScientificNotation(number) ==
    IF ~Includes(number, "e") THEN number
    ELSE LET mantissa == SplitFirst(number, "e")
             expText  == SplitSecond(number, "e")
             exponent == IF expText = << >> THEN <<"0">> ELSE expText
             exponentValue == IF ParseIntIsNaN(exponent) THEN 0 ELSE ParseInt(exponent)
             digits   == ReplaceFirst(mantissa, ".", << >>)
         IN  \* NaN < 0 is false and "0".repeat(NaN) is empty
             IF exponentValue < 0
             THEN <<"0", ".">> \o Repeat("0", (0 - exponentValue) - 1) \o digits
             ELSE digits \o Repeat("0", exponentValue)

(***************************************************************************)
(* Instances and the constructor.                                          *)
(***************************************************************************)
Instance(sign, value, decimal) ==
    [ok |-> TRUE, err |-> "", sign |-> sign, value |-> value, decimal |-> decimal]

Thrown(err) == [ok |-> FALSE, err |-> err, sign |-> TRUE, value |-> << >>, decimal |-> << >>]

\* The bound check without its clauses for a fraction at the bound itself.
BoundExceededIgnoringFraction(value, decimal) ==
    \/ BigLess(POSITIVE_INFINITY, BigIntOf(value))
    \/ BigLess(BigIntOf(value), NEGATIVE_INFINITY)

BoundExceeded(value, decimal) ==
    \/ BigLess(POSITIVE_INFINITY, BigIntOf(value))
    \/ BigIntOf(value) = POSITIVE_INFINITY /\ BigIntOf(decimal) # BigZero
    \/ BigLess(BigIntOf(value), NEGATIVE_INFINITY)
    \/ BigIntOf(value) = NEGATIVE_INFINITY /\ BigIntOf(decimal) # BigZero

Construct(sign, value, decimal) ==
    IF ~Parseable(value) \/ ~Parseable(decimal) THEN Thrown("format")
    ELSE IF BoundExceeded(value, decimal) THEN Thrown("range")
    ELSE IF Len(decimal) >= PRECISION_BYTES
    THEN LET newDecimal == roundString(decimal, PRECISION_BYTES)
         IN  IF Len(newDecimal) > PRECISION_BYTES
             THEN Instance(sign, BigToString(BigAdd(BigIntOf(value), BigOne)),
                           Repeat("0", PRECISION_BYTES))
             ELSE Instance(sign, value, newDecimal)
    ELSE Instance(sign, value, PadEnd(decimal, PRECISION_BYTES))

(***************************************************************************)
(* The arguments a call hands to the constructor (NoArgs when it throws    *)
(* before it gets that far), and the constructor call.                     *)
(***************************************************************************)
Args(sign, value, decimal) ==
    [called |-> TRUE, sign |-> sign, value |-> value, decimal |-> decimal]

NoArgs == [called |-> FALSE, sign |-> TRUE, value |-> << >>, decimal |-> << >>]

New(args) == Construct(args.sign, args.value, args.decimal)

(***************************************************************************)
(* Static constructors.                                                    *)
(***************************************************************************)
fromBigIntArgs(n) == Args(~n.neg, BigToString(Big(FALSE, n.mag)), <<"0">>)

fromBigInt(n) == New(fromBigIntArgs(n))

fromStringArgs(text) ==
    LET numberAsString == widenScientificNotation(ReplaceFirst(text, ",", <<".">>))
        sign    == ~(numberAsString # << >> /\ numberAsString[1] = "-")
        cleaned == IF sign THEN numberAsString ELSE StrFrom(numberAsString, 1)
    IN  IF CountOf(numberAsString, ".") > 1 THEN NoArgs
        ELSE IF cleaned = << >> \/ \E i \in 1..Len(cleaned) : ~IsDigit(cleaned[i]) /\ cleaned[i] # "."
        THEN NoArgs
        ELSE Args(sign, SplitFirst(cleaned, "."),
                  IF HasSecond(cleaned, ".") THEN SplitSecond(cleaned, ".") ELSE <<"0">>)

fromString(text) ==
    IF fromStringArgs(text).called THEN New(fromStringArgs(text)) ELSE Thrown("parse")

\* this._decimal[0] && Number.parseInt(this._decimal[0]) >= 5
FirstDigitRoundsUp(this) ==
    this.decimal # << >> /\ IsDigit(this.decimal[1]) /\ DigitVal(this.decimal[1]) >= 5

SignText(this) == IF this.sign THEN << >> ELSE <<"-">>

(***************************************************************************)
(* Type conversion and type check methods.                                 *)
(***************************************************************************)
toBigInt(this) ==
    LET m == BigAdd(BigIntOf(this.value), IF FirstDigitRoundsUp(this) THEN BigOne ELSE BigZero)
    IN  IF this.sign THEN m ELSE BigNeg(m)

toString(this) == SignText(this) \o this.value \o <<".">> \o this.decimal

toInteger(this) ==
    SignText(this) \o roundString(this.value \o StrTo(this.decimal, 1), Len(this.value))

isInteger(this) == BigIntOf(this.decimal) = BigZero

isPositive(this) == this.sign

(***************************************************************************)
(* Arithmetic conversion methods.                                          *)
(***************************************************************************)
copysignArgs(number, sign) == Args(sign.sign, number.value, number.decimal)

absArgs(this) == Args(TRUE, this.value, this.decimal)

ceilArgs(this) ==
    Args(this.sign,
         BigToString(BigAdd(BigIntOf(this.value),
                            IF ~this.sign \/ BigIntOf(this.decimal) = BigZero
                            THEN BigZero ELSE BigOne)),
         <<"0">>)

floorArgs(this) ==
    Args(this.sign,
         BigToString(BigAdd(BigIntOf(this.value),
                            IF ~this.sign /\ BigIntOf(this.decimal) # BigZero
                            THEN BigOne ELSE BigZero)),
         <<"0">>)

negArgs(this) == Args(~this.sign, this.value, this.decimal)

roundArgs(this) ==
    Args(this.sign,
         BigToString(BigAdd(BigIntOf(this.value),
                            IF FirstDigitRoundsUp(this) THEN BigOne ELSE BigZero)),
         <<"0">>)

truncArgs(this) == Args(this.sign, this.value, <<"0">>)

abs(this) == New(absArgs(this))

neg(this) == New(negArgs(this))

(***************************************************************************)
(* Logic comparison methods.                                               *)
(***************************************************************************)
equals(this, other) ==
    this.sign = other.sign /\ this.value = other.value /\ this.decimal = other.decimal

gt(this, other) ==
    IF this.sign # other.sign THEN this.sign
    ELSE IF BigIntOf(this.value) # BigIntOf(other.value)
    THEN IF this.sign
         THEN BigLess(BigIntOf(other.value), BigIntOf(this.value))
         ELSE BigLess(BigIntOf(this.value), BigIntOf(other.value))
    ELSE IF this.sign
         THEN BigLess(BigIntOf(other.decimal), BigIntOf(this.decimal))
         ELSE BigLess(BigIntOf(this.decimal), BigIntOf(other.decimal))

gte(this, other) == gt(this, other) \/ equals(this, other)

lt(this, other) == ~gte(this, other)

lte(this, other) == ~gt(this, other)

(***************************************************************************)
(* Arithmetic methods.  this.abs(), other.abs() and this.neg() rebuild an  *)
(* instance from stored fields, which the constructor accepts again.       *)
(***************************************************************************)
RECURSIVE addArgs(_, _)
addArgs(this, other) ==
    IF this.sign = other.sign
    THEN Args(this.sign,
              BigToString(BigAdd(BigIntOf(this.value), BigIntOf(other.value))),
              roundString(BigToString(BigAdd(BigIntOf(this.decimal), BigIntOf(other.decimal))),
                          PRECISION_BYTES))
    ELSE IF gt(abs(this), abs(other))
    THEN Args(this.sign,
              BigToString(BigSub(BigIntOf(this.value), BigIntOf(other.value))),
              BigToString(BigSub(BigIntOf(this.decimal), BigIntOf(other.decimal))))
    ELSE addArgs(other, neg(this))

add(this, other) == New(addArgs(this, other))

subArgs(this, other) == addArgs(this, neg(other))

sub(this, other) == New(subArgs(this, other))

(***************************************************************************)
(* The caller: two variables holding instances, and a record of the last   *)
(* call (its operands, the arguments that reached the constructor, and     *)
(* what it returned or threw).                                             *)
(***************************************************************************)
VARIABLES x, y, last, ops

vars == <<x, y, last, ops>>

MaxOps == 3

D(t) == [i \in 1..Len(t) |-> DigitChar(t[i])]

Dec(i, f) == D(i) \o <<".">> \o D(f)

Nines(n) == Repeat("9", n)

Zeros(n) == Repeat("0", n)

\* The texts handed to fromString: plain decimals, a negative zero, a text
\* with two separators, fractions of 19 digits, scientific notation, and
\* texts at the magnitude bound.
PlainTexts ==
    { Dec(<<1, 2, 3>>, <<4, 5, 6>>), Dec(<<1, 0, 0>>, <<1, 0, 0>>), Dec(<<0>>, <<6>>),
      Dec(<<2>>, <<1>>), Dec(<<1>>, <<5>>), D(<<1>>), D(<<7>>), D(<<0, 0, 7>>),
      Dec(<<5>>, <<7>>), <<"-", "0", ".", "0">>, <<"-">> \o Dec(<<1>>, <<5>>),
      <<"1", "2", ".", ".", "3", "4">> }

LongTexts ==
    { <<"0", ".", "0">> \o Nines(PRECISION_BYTES - 1) \o <<"5">>,
      <<"0", ".">> \o Nines(PRECISION_BYTES) \o <<"5">>,
      <<"0", ".">> \o D(<<1, 2, 3, 4, 5, 6, 7, 8, 9, 0, 1, 2, 3, 4, 5, 6, 7, 8, 5>>) }

ScientificTexts ==
    { <<"1", ".", "5", "e", "2">>, <<"1", "5", "e", "-", "1">>, <<"2", "e", "6">>,
      <<"1", ".", "5", "e", "-", "7">>, <<"1", "E", "5">> }

BoundTexts ==
    { <<"1">> \o Zeros(MAX_BYTES),
      <<"1">> \o Zeros(MAX_BYTES) \o <<".", "5">>,
      Nines(MAX_BYTES) \o <<".">> \o Nines(PRECISION_BYTES) \o <<"5">>,
      Nines(MAX_BYTES) \o <<".", "5">> }

Texts == PlainTexts \cup LongTexts \cup ScientificTexts \cup BoundTexts

\* The native integers handed to fromBigInt.
BigInts == { BigZero, POSITIVE_INFINITY, NEGATIVE_INFINITY, BigAdd(POSITIVE_INFINITY, BigOne) }

None == Thrown("none")

Call(op, a, b, input, args, out, text, flag) ==
    [op |-> op, a |-> a, b |-> b, input |-> input, args |-> args, out |-> out,
     text |-> text, flag |-> flag]

Init ==
    /\ x = fromBigInt(BigZero)
    /\ y = fromBigInt(BigZero)
    /\ last = Call("init", None, None, << >>, NoArgs, None, << >>, FALSE)
    /\ ops = 0

\* The fields of a constructor call and of its outcome, and the records they make.
ArgsFields(args) == <<args.called, args.sign, args.value, args.decimal>>

ArgsOf(f) == [called |-> f[1], sign |-> f[2], value |-> f[3], decimal |-> f[4]]

OutFields(out) == <<out.ok, out.err, out.sign, out.value, out.decimal>>

OutOf(f) == [ok |-> f[1], err |-> f[2], sign |-> f[3], value |-> f[4], decimal |-> f[5]]

\* What fromString does with each text and fromBigInt with each native integer:
\* the input, the constructor call it makes and the outcome.
FromStringCalls ==
    { <<text, ArgsFields(fromStringArgs(text)), OutFields(fromString(text))>> : text \in Texts }

FromBigIntCalls ==
    { <<BigToString(n), ArgsFields(fromBigIntArgs(n)), OutFields(fromBigInt(n))>> : n \in BigInts }

\* The variable that receives a result keeps its instance when the call throws.
Load(op, call, target) ==
    LET out == OutOf(call[3])
    IN  /\ ops < MaxOps
        /\ last' = Call(op, None, None, call[1], ArgsOf(call[2]), out, << >>, FALSE)
        /\ x' = IF target = "x" /\ out.ok THEN out ELSE x
        /\ y' = IF target = "y" /\ out.ok THEN out ELSE y
        /\ ops' = ops + 1

FromString(target) == \E call \in FromStringCalls : Load("fromString", call, target)

FromBigInt(target) == \E call \in FromBigIntCalls : Load("fromBigInt", call, target)

Apply(op, b, args) ==
    /\ ops < MaxOps
    /\ LET res == New(args)
       IN  /\ last' = Call(op, x, b, << >>, args, res, << >>, FALSE)
           /\ x' = IF res.ok THEN res ELSE x
    /\ y' = y
    /\ ops' = ops + 1

Copysign == Apply("copysign", y, copysignArgs(x, y))

Abs == Apply("abs", None, absArgs(x))

Ceil == Apply("ceil", None, ceilArgs(x))

Floor == Apply("floor", None, floorArgs(x))

Neg == Apply("neg", None, negArgs(x))

Round == Apply("round", None, roundArgs(x))

Trunc == Apply("trunc", None, truncArgs(x))

Add == Apply("add", y, addArgs(x, y))

Sub == Apply("sub", y, subArgs(x, y))

\* Calls that return a text or a boolean and construct nothing.
Query(op, b, text, flag) ==
    /\ ops < MaxOps
    /\ last.op # op
    /\ last' = Call(op, x, b, << >>, NoArgs, None, text, flag)
    /\ UNCHANGED <<x, y, ops>>

ToBigInt == Query("toBigInt", None, BigToString(toBigInt(x)), FALSE)

ToInteger == Query("toInteger", None, toInteger(x), FALSE)

IsPositive == Query("isPositive", None, << >>, isPositive(x))

Equals == Query("equals", y, << >>, equals(x, y))

Gt == Query("gt", y, << >>, gt(x, y))

Next ==
    \/ \E target \in {"x", "y"} : FromString(target)
    \/ \E target \in {"x", "y"} : FromBigInt(target)
    \/ Copysign
    \/ Abs
    \/ Ceil
    \/ Floor
    \/ Neg
    \/ Round
    \/ Trunc
    \/ Add
    \/ Sub
    \/ ToBigInt
    \/ ToInteger
    \/ IsPositive
    \/ Equals
    \/ Gt

Spec == Init /\ [][Next]_vars

(***************************************************************************)
(* The decimal number an instance stands for, as the native integer        *)
(* value * 10^18 (sign, integer digits and the 18 fractional digits).      *)
(***************************************************************************)
DigitsOf(s) == [i \in 1..Len(s) |-> DigitVal(s[i])]

FractionOk(i) == Len(i.decimal) = PRECISION_BYTES /\ AllDigits(i.decimal)

WellFormed(i) == i.ok /\ AllDigits(i.value) /\ FractionOk(i)

ScaledMag(i) == Strip(DigitsOf(i.value) \o DigitsOf(i.decimal))

Exact(i) == Big(~i.sign, ScaledMag(i))

\* (10^36) * 10^18, the magnitude bound on the same scale
ScaledBound == Pow10(MAX_BYTES + PRECISION_BYTES)

WithinBound(n) == ~MagLess(ScaledBound.mag, n.mag)

IsZero(i) == BigIntOf(i.value) = BigZero /\ BigIntOf(i.decimal) = BigZero

\* An instance whose integer text is the canonical text of its magnitude, and
\* that is no negative zero.
Canonical(i) ==
    WellFormed(i) /\ i.value = BigToString(BigIntOf(i.value)) /\ (IsZero(i) => i.sign)

Instances == {i \in {x, y, last.out} : i.ok}

ExactlyOne(p, q, r) == (p /\ ~q /\ ~r) \/ (~p /\ q /\ ~r) \/ (~p /\ ~q /\ r)

(***************************************************************************)
(* Claims.                                                                 *)
(***************************************************************************)
\* C1: for instances A and B of the same sign whose exact sum is within the
\* magnitude bound, A.add(B) is the instance of that sign holding the exact
\* decimal sum (a fractional sum of 10^18 or more carries 1 into the integer
\* part, a shorter one is zero-padded on the left to 18 digits).
C1_AddSameSignIsExactSum ==
    ( /\ last.op = "add"
      /\ WellFormed(last.a) /\ WellFormed(last.b)
      /\ last.a.sign = last.b.sign
      /\ WithinBound(BigAdd(Exact(last.a), Exact(last.b))) )
    => ( /\ WellFormed(last.out)
         /\ last.out.sign = last.a.sign
         /\ ScaledMag(last.out) = MagAdd(ScaledMag(last.a), ScaledMag(last.b)) )

\* C2: for instances A and B, A.sub(B) is the instance holding the exact
\* decimal difference A - B (the smaller magnitude subtracted from the larger,
\* with the sign of the larger-magnitude operand).
C2_SubIsExactDifference ==
    ( /\ last.op = "sub"
      /\ WellFormed(last.a) /\ WellFormed(last.b)
      /\ WithinBound(BigSub(Exact(last.a), Exact(last.b))) )
    => ( /\ WellFormed(last.out)
         /\ Exact(last.out) = BigSub(Exact(last.a), Exact(last.b)) )

\* C3: additive inverse: for every valid instance A,
\* A.add(A.neg()).equals(BigNumber.fromBigInt(0n)) is true.
C3_AdditiveInverse ==
    ( /\ last.op = "add"
      /\ WellFormed(last.a)
      /\ last.b = neg(last.a) )
    => (last.out.ok /\ equals(last.out, fromBigInt(BigZero)))

\* C4: every instance reachable by fromString, fromBigInt, copysign, neg, abs,
\* trunc, ceil, floor, round, add and sub has a fractional field of exactly 18
\* characters, all of them decimal digits.
C4_FractionFieldIs18Digits == \A i \in Instances : FractionOk(i)

\* C6: zero is never negative: every instance whose integer magnitude is 0 and
\* whose fractional field is all zeros has sign = true.
C6_ZeroIsNeverNegative == \A i \in Instances : IsZero(i) => isPositive(i)

\* C7: comparison totality: for all instances A and B, exactly one of
\* A.gt(B), A.equals(B), B.gt(A) is true.
C7_ComparisonTotality ==
    /\ last.op = "gt" => ExactlyOne(last.flag, equals(last.a, last.b), gt(last.b, last.a))
    /\ last.op = "equals" => ExactlyOne(gt(last.a, last.b), last.flag, gt(last.b, last.a))

\* C8: for every instance A, A.toInteger() is the decimal text of A.toBigInt():
\* the integer magnitude rounded half-up on the first fractional digit, for
\* every integer magnitude, single-digit ones and runs of 9s included.
C8_ToIntegerIsTextOfToBigInt ==
    (last.op = "toInteger" /\ Canonical(last.a))
    => last.text = BigToString(toBigInt(last.a))

\* C9: for text with more than 18 fractional digits, fromString yields the value
\* rounded half-up at the 19th fractional digit, and the integer magnitude is
\* incremented by 1 if and only if the digit is 5 or more and all of the first
\* 18 fractional digits are 9.
LongFraction ==
    /\ last.op = "fromString"
    /\ ~Includes(last.input, "e")
    /\ last.args.called
    /\ AllDigits(last.args.value) /\ AllDigits(last.args.decimal)
    /\ Len(last.args.decimal) > PRECISION_BYTES

RoundsUp == DigitVal(last.args.decimal[PRECISION_BYTES + 1]) >= 5

KeptMag == Strip(DigitsOf(last.args.value \o StrTo(last.args.decimal, PRECISION_BYTES)))

C9_ConstructionRoundsHalfUp ==
    LongFraction
    => ( /\ WellFormed(last.out)
         /\ ScaledMag(last.out) = (IF RoundsUp THEN MagAdd(KeptMag, <<1>>) ELSE KeptMag)
         /\ BigIntOf(last.out.value) =
                (IF RoundsUp /\ StrTo(last.args.decimal, PRECISION_BYTES) = Nines(PRECISION_BYTES)
                 THEN BigAdd(BigIntOf(last.args.value), BigOne)
                 ELSE BigIntOf(last.args.value)) )

\* C10: for every mantissa m (digits with at most one separator) and integer
\* exponent k after 'e' or 'E', fromString(m + 'e' + k) yields m * 10^k, whenever
\* that value is within the magnitude bound and the 18-digit precision.
ExponentMark == IF Includes(last.input, "e") THEN "e" ELSE "E"

Mantissa == SplitFirst(last.input, ExponentMark)

MantissaInteger == SplitFirst(Mantissa, ".")

MantissaFraction == IF Includes(Mantissa, ".") THEN SplitSecond(Mantissa, ".") ELSE << >>

\* the zeros that follow the mantissa's digits in m * 10^k * 10^18
ScaledShift ==
    (PRECISION_BYTES - Len(MantissaFraction)) + ParseInt(SplitSecond(last.input, ExponentMark))

Scientific ==
    /\ last.op = "fromString"
    /\ Includes(last.input, "e") \/ Includes(last.input, "E")
    /\ AllDigits(MantissaInteger) /\ AllDigits(MantissaFraction)
    /\ MantissaInteger \o MantissaFraction # << >>
    /\ ~ParseIntIsNaN(SplitSecond(last.input, ExponentMark))
    /\ ScaledShift >= 0
    /\ Len(MantissaInteger \o MantissaFraction) + ScaledShift <= MAX_BYTES + PRECISION_BYTES

C10_ScientificNotationIsMantissaTimesPowerOfTen ==
    Scientific
    => ( /\ WellFormed(last.out)
         /\ last.out.sign
         /\ ScaledMag(last.out) =
                Strip(DigitsOf(MantissaInteger \o MantissaFraction) \o Repeat(0, ScaledShift)) )

\* C5: every constructed instance has an integer magnitude between 0 and 10^36
\* and an all-zero fractional field at 10^36; constructing 10^36 with a zero
\* fraction succeeds, and a constructor call whose arguments violate the bound
\* throws instead of returning an instance.
InBound(i) ==
    /\ Parseable(i.value)
    /\ ~BigIntOf(i.value).neg
    /\ ~MagLess(Pow10(MAX_BYTES).mag, BigIntOf(i.value).mag)
    /\ BigIntOf(i.value) = Pow10(MAX_BYTES) => i.decimal = Zeros(PRECISION_BYTES)

ArgsNumeric == last.args.called /\ Parseable(last.args.value) /\ Parseable(last.args.decimal)

ArgsAtBound ==
    /\ ArgsNumeric
    /\ BigIntOf(last.args.value).mag = Pow10(MAX_BYTES).mag
    /\ BigIntOf(last.args.decimal) = BigZero

ArgsBeyondBound ==
    /\ ArgsNumeric
    /\ \/ MagLess(Pow10(MAX_BYTES).mag, BigIntOf(last.args.value).mag)
       \/ /\ BigIntOf(last.args.value).mag = Pow10(MAX_BYTES).mag
          /\ BigIntOf(last.args.decimal) # BigZero

C5_MagnitudeBound ==
    /\ \A i \in Instances : InBound(i)
    /\ ArgsAtBound => last.out.ok
    /\ ArgsBeyondBound => ~last.out.ok

\* The rounding carry of a 19-digit fraction lifts 10^36 - 1 to exactly 10^36.
C5_CarryReachesBound ==
    /\ last.op = "fromString"
    /\ last.args.called
    /\ last.args.value = Nines(MAX_BYTES)
    /\ Len(last.args.decimal) > PRECISION_BYTES
    /\ last.out.ok
    /\ BigIntOf(last.out.value) = POSITIVE_INFINITY
    /\ x = last.out
====
